---- MODULE Spec2Model ----
(***************************************************************************)
(* Model of src/api/app.py: the /api/check-site endpoint (check_site) and  *)
(* the framework / site-builder detection heuristic (detect_framework).    *)
(*                                                                         *)
(* Python strings are TLA+ strings (sequences of characters); substring    *)
(* search, lower(), strip(), startswith() and join() are computed on the   *)
(* characters.  A parsed page is a sequence of nodes (meta tags, script    *)
(* tags, other markup) and str(soup) is its serialisation.                 *)
(***************************************************************************)
EXTENDS Integers, Sequences, FiniteSets, TLC

VARIABLES
    pc,          \* "idle" | "received" | "fetching" | "done": position of the one request in flight
    request,     \* the body of the request being served (or NoRequest)
    url,         \* detect_framework's local `url` (after strip and scheme normalisation)
    gets,        \* number of requests.get() calls made for the request being served
    dispatched,  \* TRUE once check_site has called detect_framework for this request
    page,        \* what the GET produced for this request (or NoPage)
    frameworks,  \* detect_framework's `frameworks` dict as the last call that built it left it
    response,    \* the (status, body) pair answered for this request (or NoResponse)
    warm         \* history: this request's classification began after an earlier call had set a flag

vars == <<pc, request, url, gets, dispatched, page, frameworks, response, warm>>

\* Longest parsed page, in nodes.
MaxNodes == 2

(***************************************************************************)
(* Python string primitives.                                               *)
(***************************************************************************)
UpperLetters == "ABCDEFGHIJKLMNOPQRSTUVWXYZ"
LowerLetters == "abcdefghijklmnopqrstuvwxyz"

\* the lower-case form of each upper-case letter
ToLower ==
    [c \in { SubSeq(UpperLetters, i, i) : i \in 1..Len(UpperLetters) } |->
        LET i == CHOOSE j \in 1..Len(UpperLetters) : SubSeq(UpperLetters, j, j) = c
        IN  SubSeq(LowerLetters, i, i)]

\* str.lower() on one character
LowerChar(c) == IF c \in DOMAIN ToLower THEN ToLower[c] ELSE c

RECURSIVE Lower(_)
\* str.lower()
Lower(s) ==
    IF Len(s) <= 1 THEN LowerChar(s)
    ELSE LET half == Len(s) \div 2
         IN  Lower(SubSeq(s, 1, half)) \o Lower(SubSeq(s, half + 1, Len(s)))

\* `p in s` on strings
Contains(s, p) ==
    \E i \in 1..(Len(s) - Len(p) + 1) : SubSeq(s, i, i + Len(p) - 1) = p

\* s.startswith(p)
StartsWith(s, p) ==
    Len(s) >= Len(p) /\ SubSeq(s, 1, Len(p)) = p

Whitespace == {" ", "\t", "\n"}

RECURSIVE LStrip(_)
LStrip(s) ==
    IF s # "" /\ SubSeq(s, 1, 1) \in Whitespace
    THEN LStrip(SubSeq(s, 2, Len(s)))
    ELSE s

RECURSIVE RStrip(_)
RStrip(s) ==
    IF s # "" /\ SubSeq(s, Len(s), Len(s)) \in Whitespace
    THEN RStrip(SubSeq(s, 1, Len(s) - 1))
    ELSE s

\* str.strip()
Strip(s) == RStrip(LStrip(s))

RECURSIVE Join(_, _)
\* sep.join(list)
Join(sep, list) ==
    IF list = <<>> THEN ""
    ELSE IF Len(list) = 1 THEN list[1]
    ELSE list[1] \o sep \o Join(sep, Tail(list))

(***************************************************************************)
(* Request bodies: what request.get_json() can yield.                      *)
(***************************************************************************)
JNull == [t |-> "null"]
JInt(n) == [t |-> "int", v |-> n]
JStr(s) == [t |-> "str", v |-> s]
JDict(f) == [t |-> "dict", v |-> f]
\* a request with no JSON body at all
JAbsent == [t |-> "absent"]

EmptyDict == [k \in {} |-> JNull]

\* url strings a client may send
UrlStrings ==
    { "", "  ", "mysite.wixsite.com", " http://example.com ",
      "https://MySite.WixSite.com" }

Bodies ==
    { JAbsent, JNull, JInt(5), JDict(EmptyDict),
      JDict("name" :> JStr("example.com")),
      JDict("url" :> JInt(5)), JDict("url" :> JNull) }
    \cup { JDict("url" :> JStr(s)) : s \in UrlStrings }

NoRequest == [t |-> "none"]

(***************************************************************************)
(* Parsed pages.  A node is a meta tag with its content attribute, a       *)
(* script tag with its src attribute, or any other piece of markup.        *)
(***************************************************************************)
Meta(c) == [tag |-> "meta", val |-> c]
Script(s) == [tag |-> "script", val |-> s]
Text(m) == [tag |-> "text", val |-> m]

Nodes ==
    { Meta("react angular"), Meta("Squarespace"),
      Script("/js/main.js"), Script("/js/Next.min.js"),
      Text("<div data-reactroot>"), Text("<div id=__next ng-app>"),
      Text("cdn.shopify.com"), Text("webflow.com") }

RECURSIVE SeqsUpTo(_, _)
SeqsUpTo(S, n) ==
    IF n = 0 THEN { <<>> }
    ELSE LET shorter == SeqsUpTo(S, n - 1)
         IN  shorter \cup { Append(d, x) : d \in shorter, x \in S }

Documents == SeqsUpTo(Nodes, MaxNodes)

\* str(node) as BeautifulSoup's html.parser tree writes it
Serialize(node) ==
    CASE node.tag = "meta"   -> "<meta content=\"" \o node.val \o "\"/>"
      [] node.tag = "script" -> "<script src=\"" \o node.val \o "\"></script>"
      [] OTHER               -> node.val

RECURSIVE SoupStr(_)
\* str(soup)
SoupStr(doc) ==
    IF doc = <<>> THEN "" ELSE Serialize(Head(doc)) \o SoupStr(Tail(doc))

\* soup.find_all(tag), each element reduced to str(el.get(attr, ''))
FindAll(doc, tag) ==
    LET hit(n) == n.tag = tag
        els == SelectSeq(doc, hit)
    IN  [i \in 1..Len(els) |-> els[i].val]

\* what requests.get + raise_for_status can hand back for a successful GET:
\* a page that parses, a body on which BeautifulSoup(...) raises, or a tree
\* on which the traversal raises
OkPage(doc) == [kind |-> "ok", doc |-> doc]
BadHtml == [kind |-> "badhtml", msg |-> "parser failure"]
BadTree == [kind |-> "badtree", msg |-> "maximum recursion depth exceeded"]
Pages == { OkPage(d) : d \in Documents } \cup { BadHtml, BadTree }
NoPage == [kind |-> "none"]

\* exceptions requests.get / raise_for_status raise, with the classes each is an instance of
Raised(cls, msg) == [kind |-> "raised", cls |-> cls, msg |-> msg]
IsInstance(cls) ==
    CASE cls = "ConnectTimeout"   -> {"ConnectTimeout", "Timeout", "ConnectionError", "RequestException"}
      [] cls = "ReadTimeout"      -> {"ReadTimeout", "Timeout", "RequestException"}
      [] cls = "SSLError"         -> {"SSLError", "ConnectionError", "RequestException"}
      [] cls = "ConnectionError"  -> {"ConnectionError", "RequestException"}
      [] cls = "HTTPError"        -> {"HTTPError", "RequestException"}
      [] cls = "TooManyRedirects" -> {"TooManyRedirects", "RequestException"}
      [] OTHER                    -> {cls}
Failures ==
    { Raised("ConnectTimeout", "connect timed out"), Raised("ReadTimeout", "read timed out"),
      Raised("SSLError", "certificate verify failed"), Raised("ConnectionError", "connection refused"),
      Raised("HTTPError", "404 Client Error: Not Found"),
      Raised("TooManyRedirects", "Exceeded 30 redirects."),
      Raised("UnicodeError", "label empty or too long") }

(***************************************************************************)
(* detect_framework                                                        *)
(***************************************************************************)
\* site_builders in alphabetical order
site_builders_alphabetical == <<"Shopify", "Squarespace", "Webflow", "Wix">>

site_builders == <<"Wix", "Squarespace", "Shopify", "Webflow">>

\* key order of the `frameworks` dict literal
Technologies ==
    <<"React", "Vue", "Angular", "Next.js", "Wix", "Squarespace", "Shopify", "Webflow">>

Range(seq) == { seq[i] : i \in 1..Len(seq) }

\* the flag dict kept from the previous call instead of built anew
InitFrameworks_kept == frameworks

InitFrameworks == [fw \in Range(Technologies) |-> FALSE]

Flag(flags, fw, cond) == IF cond THEN [flags EXCEPT ![fw] = TRUE] ELSE flags

\* MetaRule with independent ifs instead of the if/elif chain
MetaRule_independent(flags, val) ==
    LET content == Lower(val)
        f1 == Flag(flags, "React", Contains(content, "react"))
        f2 == Flag(f1, "Angular", Contains(content, "angular"))
    IN  Flag(f2, "Next.js", Contains(content, "next"))

\* the if/elif chain run on one meta tag's content
MetaRule(flags, val) ==
    LET content == Lower(val)
    IN  IF Contains(content, "react") THEN [flags EXCEPT !["React"] = TRUE]
        ELSE IF Contains(content, "angular") THEN [flags EXCEPT !["Angular"] = TRUE]
        ELSE IF Contains(content, "next") THEN [flags EXCEPT !["Next.js"] = TRUE]
        ELSE flags

\* the if/elif chain run on one script tag's src
ScriptRule(flags, val) ==
    LET src == Lower(val)
    IN  IF Contains(src, "react") THEN [flags EXCEPT !["React"] = TRUE]
        ELSE IF Contains(src, "angular") THEN [flags EXCEPT !["Angular"] = TRUE]
        ELSE IF Contains(src, "next") THEN [flags EXCEPT !["Next.js"] = TRUE]
        ELSE flags

RECURSIVE ScanMeta(_, _)
\* for meta in soup.find_all('meta')
ScanMeta(flags, vals) ==
    IF vals = <<>> THEN flags ELSE ScanMeta(MetaRule(flags, Head(vals)), Tail(vals))

RECURSIVE ScanScripts(_, _)
\* for script in soup.find_all('script')
ScanScripts(flags, vals) ==
    IF vals = <<>> THEN flags ELSE ScanScripts(ScriptRule(flags, Head(vals)), Tail(vals))

\* Markers as an if/elif chain, like the per-tag rules
Markers_exclusive(flags, page_source) ==
    IF Contains(page_source, "data-reactroot") \/ Contains(page_source, "react-root")
    THEN [flags EXCEPT !["React"] = TRUE]
    ELSE IF Contains(page_source, "ng-") \/ Contains(page_source, "angular")
    THEN [flags EXCEPT !["Angular"] = TRUE]
    ELSE IF Contains(page_source, "__next") THEN [flags EXCEPT !["Next.js"] = TRUE]
    ELSE flags

\* framework indicators in the page source
Markers(flags, page_source) ==
    LET f1 == Flag(flags, "React",
                   Contains(page_source, "data-reactroot") \/ Contains(page_source, "react-root"))
        f2 == Flag(f1, "Angular",
                   Contains(page_source, "ng-") \/ Contains(page_source, "angular"))
    IN  Flag(f2, "Next.js", Contains(page_source, "__next"))

\* Builders without the test of the url
Builders_markup_only(flags, u, page_source) ==
    LET f1 == Flag(flags, "Wix",
                   \/ Contains(page_source, "static.parastorage.com")
                   \/ Contains(page_source, "wix.com"))
        f2 == Flag(f1, "Squarespace", Contains(page_source, "squarespace.com"))
        f3 == Flag(f2, "Shopify", Contains(page_source, "shopify"))
    IN  Flag(f3, "Webflow", Contains(page_source, "webflow.com"))

\* website builder signatures
Builders(flags, u, page_source) ==
    LET f1 == Flag(flags, "Wix",
                   \/ Contains(u, "wixsite.com")
                   \/ Contains(page_source, "static.parastorage.com")
                   \/ Contains(page_source, "wix.com"))
        f2 == Flag(f1, "Squarespace",
                   \/ Contains(page_source, "squarespace.com")
                   \/ Contains(page_source, "content=\"Squarespace\""))
        f3 == Flag(f2, "Shopify",
                   \/ Contains(page_source, "cdn.shopify.com")
                   \/ Contains(page_source, "content=\"Shopify\"")
                   \/ Contains(page_source, "shopify"))
    IN  Flag(f3, "Webflow",
             \/ Contains(page_source, "webflow.com")
             \/ Contains(page_source, "content=\"Webflow\""))

\* str(soup).lower()
PageSource(doc) == Lower(SoupStr(doc))

\* PageSource, tabulated once over the pages of the model
page_sources == [doc \in Documents |-> PageSource(doc)]

\* the four scans of one parsed page, run on a given flag dict
Scan(flags, u, doc) ==
    LET ps == page_sources[doc]
        m  == ScanMeta(flags, FindAll(doc, "meta"))
        s  == ScanScripts(m, FindAll(doc, "script"))
    IN  Builders(Markers(s, ps), u, ps)

\* the flags one call ends with: the dict is built anew, then scanned into
Detect(u, doc) == Scan(InitFrameworks, u, doc)

Failure(msg) == [compatible |-> FALSE, error |-> msg]
Success(list) == [compatible |-> TRUE, frameworks |-> list]

\* Verdict with the framework list tested before the builder list
Verdict_frameworks_first(flags) ==
    LET on(fw) == flags[fw]
        frameworks_only == SelectSeq(SubSeq(Technologies, 1, 4), on)
        detected_builders == SelectSeq(site_builders, on)
    IN  IF frameworks_only # <<>> THEN Success(frameworks_only)
        ELSE IF detected_builders # <<>>
        THEN Failure("Framework not supported: " \o Join(", ", detected_builders))
        ELSE Success(<<"Unknown">>)

\* Verdict without the 'Unknown' fallback
Verdict_no_fallback(flags) ==
    LET on(fw) == flags[fw]
        detected_builders == SelectSeq(site_builders, on)
    IN  IF detected_builders # <<>>
        THEN Failure("Framework not supported: " \o Join(", ", detected_builders))
        ELSE Success(SelectSeq(Technologies, on))

\* Verdict that leaves the framework list in the builder refusal
Verdict_list_in_refusal(flags) ==
    LET on(fw) == flags[fw]
        detected_builders == SelectSeq(site_builders, on)
        detected == SelectSeq(Technologies, on)
    IN  IF detected_builders # <<>>
        THEN [compatible |-> FALSE, frameworks |-> detected,
              error |-> "Framework not supported: " \o Join(", ", detected_builders)]
        ELSE IF detected # <<>> THEN Success(detected)
        ELSE Success(<<"Unknown">>)

\* the verdict computed from the flags
Verdict(flags) ==
    LET on(fw) == flags[fw]
        detected_builders == SelectSeq(site_builders, on)
        detected == SelectSeq(Technologies, on)
    IN  IF detected_builders # <<>>
        THEN Failure("Framework not supported: " \o Join(", ", detected_builders))
        ELSE IF detected # <<>> THEN Success(detected)
        ELSE Success(<<"Unknown">>)

\* scheme normalisation at the top of detect_framework
Normalize(u) ==
    IF StartsWith(u, "http://") \/ StartsWith(u, "https://") THEN u ELSE "https://" \o u

\* FetchError with the ConnectionError clause ahead of the Timeout clause
FetchError_connection_first(exc) ==
    LET is == IsInstance(exc.cls)
    IN  IF "ConnectionError" \in is
        THEN Failure("Could not connect to the website. Please check the URL and try again.")
        ELSE IF "Timeout" \in is
        THEN Failure("Request timed out. Please check the URL and try again.")
        ELSE IF "HTTPError" \in is
        THEN Failure("HTTP Error: " \o exc.msg)
        ELSE IF "RequestException" \in is
        THEN Failure("Error accessing the website: " \o exc.msg)
        ELSE Failure("Unexpected error: " \o exc.msg)

\* the except clauses around requests.get, in order
FetchError(exc) ==
    LET is == IsInstance(exc.cls)
    IN  IF "Timeout" \in is
        THEN Failure("Request timed out. Please check the URL and try again.")
        ELSE IF "SSLError" \in is
        THEN Failure("SSL certificate verification failed. The site might not be secure.")
        ELSE IF "ConnectionError" \in is
        THEN Failure("Could not connect to the website. Please check the URL and try again.")
        ELSE IF "HTTPError" \in is
        THEN Failure("HTTP Error: " \o exc.msg)
        ELSE IF "RequestException" \in is
        THEN Failure("Error accessing the website: " \o exc.msg)
        ELSE Failure("Unexpected error: " \o exc.msg)

(***************************************************************************)
(* check_site                                                              *)
(***************************************************************************)
NoResponse == [status |-> 0]
Respond(status, body) == [status |-> status, body |-> body]

\* what request.get_json() does with the body: a value, or an exception
\* (a missing or non-JSON body yields None or raises, depending on the
\* content type and the Flask release)
Returned(v) == [raised |-> FALSE, v |-> v]
Threw(msg) == [raised |-> TRUE, msg |-> msg]
GetJson(body) ==
    IF body = JAbsent
    THEN { Returned(JNull), Threw("415 Unsupported Media Type") }
    ELSE { Returned(body) }

\* `not data`
Falsy(data) ==
    \/ data.t = "null"
    \/ data.t = "dict" /\ DOMAIN data.v = {}
    \/ data.t = "int" /\ data.v = 0
    \/ data.t = "str" /\ data.v = ""

Accept(u) == [accepted |-> TRUE, url |-> u]
Reject(status, msg) == [accepted |-> FALSE, response |-> Respond(status, Failure(msg))]

\* Validate that tests the url for emptiness before trimming it
Validate_untrimmed(got) ==
    IF got.raised THEN Reject(500, "Server error: " \o got.msg)
    ELSE LET data == got.v
         IN  IF Falsy(data) THEN Reject(400, "No data provided")
             ELSE IF data.t # "dict"
             THEN Reject(500, "Server error: argument of type '" \o data.t \o "' is not iterable")
             ELSE IF "url" \notin DOMAIN data.v THEN Reject(400, "URL is required")
             ELSE IF data.v["url"].t # "str" THEN Reject(400, "URL must be a string")
             ELSE IF data.v["url"].v = "" THEN Reject(400, "URL cannot be empty")
             ELSE Accept(Strip(data.v["url"].v))

\* the body of check_site up to the call of detect_framework
Validate(got) ==
    IF got.raised THEN Reject(500, "Server error: " \o got.msg)
    ELSE LET data == got.v
         IN  IF Falsy(data) THEN Reject(400, "No data provided")
             ELSE IF data.t # "dict"
             THEN Reject(500, "Server error: argument of type '" \o data.t \o "' is not iterable")
             ELSE IF "url" \notin DOMAIN data.v THEN Reject(400, "URL is required")
             ELSE IF data.v["url"].t # "str" THEN Reject(400, "URL must be a string")
             ELSE IF Strip(data.v["url"].v) = "" THEN Reject(400, "URL cannot be empty")
             ELSE Accept(Strip(data.v["url"].v))

\* what detect_framework returns once the GET has succeeded, given the
\* flags its scans ended with
Classify(p, flags) ==
    CASE p.kind = "badhtml" -> Failure("Unexpected error: " \o p.msg)
      [] p.kind = "badtree" -> Failure("Error parsing website content: " \o p.msg)
      [] OTHER              -> Verdict(flags)

(***************************************************************************)
(* The state machine: one request at a time is routed to check_site.       *)
(***************************************************************************)
Init ==
    /\ pc = "idle"
    /\ request = NoRequest
    /\ url = ""
    /\ gets = 0
    /\ dispatched = FALSE
    /\ page = NoPage
    /\ frameworks = [fw \in Range(Technologies) |-> FALSE]
    /\ response = NoResponse
    /\ warm = FALSE

\* a POST /api/check-site arrives
Receive(body) ==
    /\ pc \in {"idle", "done"}
    /\ pc' = "received"
    /\ request' = body
    /\ url' = ""
    /\ gets' = 0
    /\ dispatched' = FALSE
    /\ page' = NoPage
    /\ response' = NoResponse
    /\ warm' = FALSE
    /\ UNCHANGED frameworks

\* check_site answers without calling detect_framework
CheckSiteReject ==
    /\ pc = "received"
    /\ \E got \in GetJson(request) :
          /\ ~Validate(got).accepted
          /\ response' = Validate(got).response
    /\ pc' = "done"
    /\ UNCHANGED <<request, url, gets, dispatched, page, frameworks, warm>>

\* check_site calls detect_framework, which normalises the url and issues the GET
CheckSiteDispatch ==
    /\ pc = "received"
    /\ \E got \in GetJson(request) :
          /\ Validate(got).accepted
          /\ url' = Normalize(Validate(got).url)
    /\ dispatched' = TRUE
    /\ gets' = gets + 1
    /\ pc' = "fetching"
    /\ UNCHANGED <<request, page, frameworks, response, warm>>

\* requests.get or raise_for_status raises; detect_framework returns the
\* matching error dict and check_site serialises it
FetchRaises(exc) ==
    /\ pc = "fetching"
    /\ page' = exc
    /\ response' = Respond(200, FetchError(exc))
    /\ pc' = "done"
    /\ UNCHANGED <<request, url, gets, dispatched, frameworks, warm>>

\* the GET succeeds; detect_framework parses and classifies the page and
\* check_site serialises the verdict
FetchReturns(p) ==
    /\ pc = "fetching"
    /\ page' = p
    /\ frameworks' = IF p.kind = "ok" THEN Detect(url, p.doc) ELSE frameworks
    /\ response' = Respond(200, Classify(p, frameworks'))
    /\ warm' = (p.kind = "ok" /\ \E fw \in DOMAIN frameworks : frameworks[fw])
    /\ pc' = "done"
    /\ UNCHANGED <<request, url, gets, dispatched>>

Next ==
    \/ \E body \in Bodies : Receive(body)
    \/ CheckSiteReject
    \/ CheckSiteDispatch
    \/ \E exc \in Failures : FetchRaises(exc)
    \/ \E p \in Pages : FetchReturns(p)

Spec == Init /\ [][Next]_vars

(***************************************************************************)
(* The signature rules of detect_framework, as data: which pattern, looked *)
(* for in which evidence, sets which technology.                           *)
(***************************************************************************)
Rule(tech, kind, pattern) == [technology |-> tech, evidence_kind |-> kind, pattern |-> pattern]

SignatureRules ==
    { Rule("React", "MetaContent", "react"), Rule("Angular", "MetaContent", "angular"),
      Rule("Next.js", "MetaContent", "next"),
      Rule("React", "ScriptSrc", "react"), Rule("Angular", "ScriptSrc", "angular"),
      Rule("Next.js", "ScriptSrc", "next"),
      Rule("React", "BodyMarker", "data-reactroot"), Rule("React", "BodyMarker", "react-root"),
      Rule("Angular", "BodyMarker", "ng-"), Rule("Angular", "BodyMarker", "angular"),
      Rule("Next.js", "BodyMarker", "__next"),
      Rule("Wix", "UrlSubstring", "wixsite.com"),
      Rule("Wix", "BodyMarker", "static.parastorage.com"), Rule("Wix", "BodyMarker", "wix.com"),
      Rule("Squarespace", "BodyMarker", "squarespace.com"),
      Rule("Squarespace", "BodyMarker", "content=\"Squarespace\""),
      Rule("Shopify", "BodyMarker", "cdn.shopify.com"),
      Rule("Shopify", "BodyMarker", "content=\"Shopify\""),
      Rule("Shopify", "BodyMarker", "shopify"),
      Rule("Webflow", "BodyMarker", "webflow.com"),
      Rule("Webflow", "BodyMarker", "content=\"Webflow\"") }

(***************************************************************************)
(* Properties.                                                             *)
(***************************************************************************)
\* a request has been answered with the verdict on a page that was fetched and parsed
Classified == pc = "done" /\ page.kind = "ok"

Body == response.body

\* the pattern occurs in the text in some letter case
InAnyCase(text, pattern) == Contains(Lower(text), Lower(pattern))

\* the rule's pattern occurs, in some letter case, in the evidence the rule looks at
Evidence(rule, u, doc) ==
    CASE rule.evidence_kind = "MetaContent" ->
            \E v \in Range(FindAll(doc, "meta")) : InAnyCase(v, rule.pattern)
      [] rule.evidence_kind = "ScriptSrc" ->
            \E v \in Range(FindAll(doc, "script")) : InAnyCase(v, rule.pattern)
      [] rule.evidence_kind = "BodyMarker" -> InAnyCase(SoupStr(doc), rule.pattern)
      [] OTHER -> InAnyCase(u, rule.pattern)

MatchedBuilders == { b \in Range(site_builders) : frameworks[b] }

\* C1: whenever the scans of a fetched page set at least one site-builder
\* flag, the verdict is compatible=false with an error that names every
\* flagged builder, and has no 'frameworks' key, whatever framework flags
\* are set as well.
C1_BuildersWin ==
    (Classified /\ MatchedBuilders # {}) =>
        /\ DOMAIN Body = {"compatible", "error"}
        /\ Body.compatible = FALSE
        /\ \A b \in MatchedBuilders : Contains(Body.error, b)

\* a page with both 'cdn.shopify.com' and 'data-reactroot' has been refused as Shopify
C1_Witness ==
    /\ pc = "done"
    /\ page = OkPage(<<Text("cdn.shopify.com"), Text("<div data-reactroot>")>>)
    /\ frameworks["React"] /\ frameworks["Shopify"]
    /\ Body.compatible = FALSE
    /\ Contains(Body.error, "Shopify")

\* the page is one meta tag whose content holds both 'react' and 'angular',
\* fetched from a url with no builder evidence
ReactAngularTag ==
    /\ Classified
    /\ Len(page.doc) = 1
    /\ page.doc[1].tag = "meta"
    /\ Contains(Lower(page.doc[1].val), "react")
    /\ Contains(Lower(page.doc[1].val), "angular")
    /\ MatchedBuilders = {}

\* C2 as stated: such a page is reported compatible with 'React' and without 'Angular'.
C2_MetaTagExclusive_Original ==
    ReactAngularTag =>
        /\ Body.compatible = TRUE
        /\ "React" \in Range(Body.frameworks)
        /\ "Angular" \notin Range(Body.frameworks)

\* C2 (amended): on such a page the meta-tag rule sets only the React flag,
\* but the serialised tag still contains 'angular', which the independent
\* page-source check matches: the verdict is compatible=true with
\* frameworks exactly ['React', 'Angular'].
C2_MetaTagExclusive ==
    ReactAngularTag =>
        /\ ScanMeta(InitFrameworks, FindAll(page.doc, "meta"))
              = [InitFrameworks EXCEPT !["React"] = TRUE]
        /\ Body = Success(<<"React", "Angular">>)

C2_Witness ==
    /\ ReactAngularTag
    /\ page.doc = <<Meta("react angular")>>
    /\ url = "http://example.com"

\* C3: every signature rule matches in any letter case: when a rule's
\* pattern occurs in its evidence in some letter case, the rule's technology
\* is flagged.
C3_CaseInsensitive ==
    Classified =>
        \A rule \in SignatureRules :
            Evidence(rule, url, page.doc) => frameworks[rule.technology]

\* no signature rule finds its pattern, in any letter case, in the page or the url
NoEvidence == \A rule \in SignatureRules : ~Evidence(rule, url, page.doc)

\* C4: a fetched page with no evidence in meta contents, script srcs,
\* markup or url is answered exactly {compatible: true, frameworks: ['Unknown']}.
C4_ZeroEvidence ==
    (Classified /\ NoEvidence) => Body = Success(<<"Unknown">>)

C4_Witness ==
    /\ Classified
    /\ NoEvidence
    /\ page.doc = <<Script("/js/main.js")>>
    /\ Body.frameworks = <<"Unknown">>

\* the url string of the request being served
RequestUrl == request.v["url"].v

\* no signature rule finds its pattern in the page itself
NoPageEvidence ==
    \A rule \in SignatureRules :
        rule.evidence_kind # "UrlSubstring" => ~Evidence(rule, url, page.doc)

\* C5: a request whose url contains 'wixsite.com', answered from a page
\* without any signature, is refused with an error that mentions 'Wix'.
C5_UrlOnlyBuilder ==
    (Classified /\ Contains(RequestUrl, "wixsite.com") /\ NoPageEvidence) =>
        /\ Body.compatible = FALSE
        /\ Contains(Body.error, "Wix")

C5_Witness ==
    /\ Classified
    /\ RequestUrl = "mysite.wixsite.com"
    /\ url = "https://mysite.wixsite.com"
    /\ page.doc = <<>>
    /\ Contains(Body.error, "Wix")

\* C6: every answer is {compatible: true, frameworks: non-empty list of
\* strings} without 'error', or {compatible: false, error: string} without
\* 'frameworks'.
C6_ResponseShape ==
    pc = "done" =>
        \/ /\ DOMAIN Body = {"compatible", "frameworks"}
           /\ Body.compatible = TRUE
           /\ Body.frameworks # <<>>
           /\ \A i \in 1..Len(Body.frameworks) : Body.frameworks[i] \in STRING
        \/ /\ DOMAIN Body = {"compatible", "error"}
           /\ Body.compatible = FALSE
           /\ Body.error \in STRING

\* a request whose page made the parser raise has been answered in the error shape
C6_Witness ==
    /\ pc = "done"
    /\ page = BadHtml
    /\ DOMAIN Body = {"compatible", "error"}
    /\ StartsWith(Body.error, "Unexpected error: ")

\* the body is absent, not an object, lacks 'url', or its 'url' is not a
\* string or is empty once trimmed
InvalidBody(b) ==
    \/ b.t # "dict"
    \/ "url" \notin DOMAIN b.v
    \/ b.v["url"].t # "str"
    \/ Strip(b.v["url"].v) = ""

\* C7: a request with an invalid body is never handed to detect_framework,
\* no GET is made for it, and it is answered {compatible: false, error: ...}.
C7_InvalidNeverFetched ==
    (request # NoRequest /\ InvalidBody(request)) =>
        /\ ~dispatched
        /\ gets = 0
        /\ pc # "fetching"
        /\ page = NoPage
        /\ pc = "done" => (DOMAIN Body = {"compatible", "error"} /\ Body.compatible = FALSE)

C7_Witness ==
    /\ pc = "done"
    /\ request = JDict("url" :> JStr("  "))
    /\ ~dispatched
    /\ response = Respond(400, Failure("URL cannot be empty"))

TimedOut(p) == p.kind = "raised" /\ "Timeout" \in IsInstance(p.cls)

\* C8: when the GET of a valid request times out, it has been attempted
\* once, the flags are left as they were, and the answer is status 200 with
\* exactly the timeout error.
C8_Timeout ==
    [][(pc = "fetching" /\ pc' = "done" /\ TimedOut(page')) =>
          /\ gets' = 1
          /\ frameworks' = frameworks
          /\ response' = Respond(200,
                 Failure("Request timed out. Please check the URL and try again."))]_vars

C8_Witness ==
    /\ pc = "done"
    /\ page = Raised("ConnectTimeout", "connect timed out")
    /\ gets = 1
    /\ response.status = 200
    /\ Body.error = "Request timed out. Please check the URL and try again."

RECURSIVE CommaSeparated(_)
CommaSeparated(names) ==
    IF Len(names) = 0 THEN ""
    ELSE IF Len(names) = 1 THEN names[1]
    ELSE names[1] \o ", " \o CommaSeparated(Tail(names))

Listed(b) == IF b \in MatchedBuilders THEN <<b>> ELSE <<>>

\* C9: the builder refusal reads 'Framework not supported: ' followed by the
\* flagged builders, each once, in the order Wix, Squarespace, Shopify,
\* Webflow, separated by ', '.
C9_StableErrorText ==
    (Classified /\ MatchedBuilders # {}) =>
        Body.error = "Framework not supported: "
            \o CommaSeparated(Listed("Wix") \o Listed("Squarespace")
                              \o Listed("Shopify") \o Listed("Webflow"))

\* evidence met in the order Webflow, Shopify markup after a Wix url
C9_Witness ==
    /\ Classified
    /\ url = "https://mysite.wixsite.com"
    /\ page.doc = <<Text("webflow.com"), Text("cdn.shopify.com")>>
    /\ Body.error = "Framework not supported: Wix, Shopify, Webflow"

\* the flag dict of a process that has classified nothing yet
NoFlags == [fw \in Range(Technologies) |-> FALSE]

\* C10: whatever calls came before, a classification ends with the flags
\* and the verdict that the first call of a fresh process computes for the
\* same url and page: no flag set by an earlier call is visible to it.
C10_Idempotent ==
    Classified =>
        /\ frameworks = Scan(NoFlags, url, page.doc)
        /\ Body = Verdict(Scan(NoFlags, url, page.doc))

\* an empty page classified Unknown after an earlier call had set flags
C10_Witness ==
    /\ Classified
    /\ warm
    /\ page.doc = <<>>
    /\ url = "http://example.com"
    /\ Body = Success(<<"Unknown">>)

\* the marker occurs in the markup of the fetched page
InMarkup(marker) == Contains(SoupStr(page.doc), marker)

\* C11: a fetched page on which no builder test fires is answered
\* compatible=true, and its framework list holds 'React' when the markup
\* contains 'data-reactroot', 'Angular' when it contains 'ng-' and 'Next.js'
\* when it contains '__next', each whatever the other markers and the meta
\* and script tags of the page.
C11_MarkersUnioned ==
    (Classified /\ MatchedBuilders = {}) =>
        /\ Body.compatible = TRUE
        /\ InMarkup("data-reactroot") => "React" \in Range(Body.frameworks)
        /\ InMarkup("ng-") => "Angular" \in Range(Body.frameworks)
        /\ InMarkup("__next") => "Next.js" \in Range(Body.frameworks)

\* a page carrying all three markers has been reported as all three technologies
C11_Witness ==
    /\ Classified
    /\ InMarkup("data-reactroot") /\ InMarkup("ng-") /\ InMarkup("__next")
    /\ MatchedBuilders = {}
    /\ Body = Success(<<"React", "Angular", "Next.js">>)

====
